---- MODULE Spec2Model ----
(***************************************************************************)
(* Model of replace_header_guards.py: the include-guard rewriter           *)
(* (replace_header_guard) and its per-file driver (process_file).          *)
(*                                                                         *)
(* A text is a sequence of lexemes.  Every lexeme is a run of characters   *)
(* that the two regular expressions of the program treat as a unit: a      *)
(* newline, a blank, a directive keyword with its '#', an identifier, or   *)
(* an opaque piece of code or comment.  Offsets count lexemes; offset p    *)
(* is the position between t[p] and t[p+1], as Python's offsets do.        *)
(***************************************************************************)
EXTENDS Integers, Sequences, FiniteSets, TLC

NL == "\n"
SP == " "

\* The value Python's None is modelled by: no text contains this lexeme.
None == <<"None">>

\* the identifier lexemes of the model's headers
Names == {"FOO", "Foo", "BAR", "F", "1"}

\* \s of the re module
IsSpace(c) == c \in {SP, NL}

\* \w of the re module (an identifier lexeme is a run of \w characters)
IsWord(c) == c \in Names

\* ^ under re.MULTILINE
AtLineStart(t, p) == p = 0 \/ (p <= Len(t) /\ t[p] = NL)

\* $ under re.MULTILINE
AtLineEnd(t, p) == p = Len(t) \/ t[p + 1] = NL

\* greedy \s* from offset p: the offset after the whole run of white space
RECURSIVE SkipSpace(_, _)
SkipSpace(t, p) ==
  IF p < Len(t) /\ IsSpace(t[p + 1]) THEN SkipSpace(t, p + 1) ELSE p

\* greedy \w+ from offset p: the offset after the whole run of word lexemes
RECURSIVE SkipWord(_, _)
SkipWord(t, p) ==
  IF p < Len(t) /\ IsWord(t[p + 1]) THEN SkipWord(t, p + 1) ELSE p

\* .* without re.DOTALL followed by $: the end of the line p lies in
RECURSIVE LineEnd(_, _)
LineEnd(t, p) == IF AtLineEnd(t, p) THEN p ELSE LineEnd(t, p + 1)

\* t[from:to] of Python
Slice(t, from, to) == SubSeq(t, from + 1, to)

\* the largest offset h in lo..hi where $ matches, or -1
RECURSIVE LastLineEnd(_, _, _)
LastLineEnd(t, lo, hi) ==
  IF hi < lo THEN -1
  ELSE IF AtLineEnd(t, hi) THEN hi
  ELSE LastLineEnd(t, lo, hi - 1)

\* str.rstrip()
RECURSIVE rstrip(_)
rstrip(t) ==
  IF Len(t) > 0 /\ IsSpace(t[Len(t)]) THEN rstrip(SubSeq(t, 1, Len(t) - 1))
  ELSE t

\* a pattern with (\w+) where \3 stands: any identifier after #define
BackRef_AnyName(t, e, name) ==
  /\ e + Len(name) <= Len(t)
  /\ \A i \in (e + 1)..(e + Len(name)) : IsWord(t[i])

\* the back-reference \3 in the #define half of header_guard_pattern
BackRef(t, e, name) ==
  /\ e + Len(name) <= Len(t)
  /\ Slice(t, e, e + Len(name)) = name

(***************************************************************************)
(* Group 2 of header_guard_pattern tried at offset q:                      *)
(*   ^\s*#ifndef\s+(\w+)\s*$\n^\s*#define\s+\3\s*$\n?                      *)
(* Every quantifier is followed by a lexeme it cannot match, so the only   *)
(* backtracking that succeeds is the one of the last \s*, which gives back *)
(* white space until $ matches.                                            *)
(***************************************************************************)
GuardAt(t, q) ==
  LET a == SkipSpace(t, q)
      b == SkipSpace(t, a + 1)
      c == SkipWord(t, b)
      d == SkipSpace(t, c)
      e == SkipSpace(t, d + 1)
      name == Slice(t, b, c)
      f == e + Len(name)
      g == SkipSpace(t, f)
      h == LastLineEnd(t, f, g)
      ok == /\ AtLineStart(t, q)
            /\ a < Len(t) /\ t[a + 1] = "#ifndef"
            /\ b > a + 1
            /\ c > b
            /\ \E i \in (c + 1)..d : t[i] = NL
            /\ d < Len(t) /\ t[d + 1] = "#define"
            /\ e > d + 1
            /\ BackRef(t, e, name)
            /\ h >= 0
  IN IF ok
     THEN [found |-> TRUE, start |-> q, ifndef |-> a + 1, name |-> name,
           define |-> d + 1, nameEnd |-> f,
           end |-> IF h < Len(t) THEN h + 1 ELSE h]
     ELSE [found |-> FALSE]

\* header_guard_pattern.search(content): group 1, ^.*? under re.DOTALL,
\* grows from offset 0 until group 2 matches
RECURSIVE SearchFrom(_, _)
SearchFrom(t, q) ==
  IF q > Len(t) THEN [found |-> FALSE]
  ELSE LET m == GuardAt(t, q)
       IN IF m.found THEN m ELSE SearchFrom(t, q + 1)

search(t) == SearchFrom(t, 0)

\* a pattern without the ifndef alternative and with a word boundary
DirectiveGroup_NoIfndef(tok) ==
  IF tok \in {"#if", "#ifdef"} THEN "if"
  ELSE IF tok = "#endif" THEN "endif"
  ELSE "none"

\* group 1 of directive_pattern for the keyword lexeme: the alternation
\* if|ifdef|ifndef|endif takes its first alternative that matches
DirectiveGroup(tok) ==
  IF tok \in {"#if", "#ifdef", "#ifndef"} THEN "if"
  ELSE IF tok = "#endif" THEN "endif"
  ELSE "none"

\* directive_pattern, ^\s*#(if|ifdef|ifndef|endif).*$, tried at offset p
DirectiveAt(t, p) ==
  LET a == SkipSpace(t, p)
  IN /\ AtLineStart(t, p)
     /\ a < Len(t)
     /\ DirectiveGroup(t[a + 1]) # "none"

\* one step of directive_pattern.finditer: the leftmost match at or after pos
RECURSIVE NextDirective(_, _)
NextDirective(t, pos) ==
  IF pos > Len(t) THEN [found |-> FALSE]
  ELSE IF DirectiveAt(t, pos)
       THEN LET a == SkipSpace(t, pos)
            IN [found |-> TRUE, start |-> pos, tok |-> a + 1,
                group |-> DirectiveGroup(t[a + 1]),
                end |-> LineEnd(t, a + 1)]
  ELSE NextDirective(t, pos + 1)

\* a scan that takes any #endif for the end of the guard
Pop_Clear(stack) == << >>

\* stack.pop() followed by the test `not stack`
Pop(stack) == SubSeq(stack, 1, Len(stack) - 1)

\* stack.append('#' + directive)
Push(stack, group) == Append(stack, "#" \o group)

\* lines 59-65: the text returned when directive_match closes the guard
Rebuild(t, m, d) ==
  LET post_define_content == Slice(t, m.end, Len(t))
      endif_pos == m.end + d.end
      pre_guard_content == Slice(t, 0, m.start)
      between_content == Slice(post_define_content, 0, d.start)
      post_endif_content == Slice(t, endif_pos, Len(t))
      new_content == pre_guard_content \o <<NL, "#pragma once", NL, NL>>
                       \o between_content \o post_endif_content
  IN rstrip(new_content) \o <<NL>>

(***************************************************************************)
(* The headers the model runs on.  A header is a sequence of lines, each a *)
(* sequence of lexemes; Join writes the lines with their newlines.         *)
(***************************************************************************)
MaxRest == 3
MaxPasses == 2

Blank == << >>
White == <<SP>>
Code == <<"int a;">>
TailCode == <<"int tail;">>
Comment == <<"// license">>
Ifndef(n) == <<"#ifndef", SP, n>>
Define(n) == <<"#define", SP, n>>
Ifdef == <<"#ifdef", SP, "F">>
If == <<"#if", SP, "F">>
Endif == <<"#endif">>
Else == <<"#else">>

RECURSIVE Join(_)
Join(ls) == IF ls = << >> THEN << >> ELSE Head(ls) \o <<NL>> \o Join(Tail(ls))

\* the text without its final newline
Chop(t) == SubSeq(t, 1, Len(t) - 1)

SeqsUpTo(S, n) == UNION {[1..k -> S] : k \in 0..n}

\* what may stand above the guard: nothing, a banner, empty or white lines,
\* an open conditional
Prologues == {<< >>, <<Comment>>, <<Blank>>, <<Ifdef>>, <<Comment, Blank, Blank>>,
              <<Comment, White>>}
Heads == {<<Ifndef("FOO"), Define("FOO")>>,
          <<Ifndef("FOO"), Blank, Define("FOO")>>,
          <<Ifndef("FOO"), Define("BAR")>>,
          <<Ifndef("Foo"), Define("FOO")>>}
RestKinds == {Blank, Code, Ifdef, Endif, Else, Ifndef("FOO"), Define("FOO")}

\* the example of the specification, with X_H written FOO and FOO written F
ExampleInput ==
  <<Comment, Ifndef("FOO"), Define("FOO"), Ifdef, Code, Endif, Endif,
    TailCode>>

ExampleOutput ==
  <<Comment, <<"#pragma once">>, Blank, Ifdef, Code, Endif, TailCode>>

Samples ==
  {ExampleInput,
   \* two guards in sequence, and one guard inside the other
   <<Ifndef("FOO"), Define("FOO"), Code, Endif, Ifndef("BAR"), Define("BAR"),
     Code, Endif>>,
   <<Ifndef("FOO"), Define("FOO"), Ifndef("BAR"), Define("BAR"), Endif, Code,
     Endif>>,
   \* three conditional blocks of the three kinds, nested and in sequence
   <<Ifndef("FOO"), Define("FOO"), If, Ifndef("BAR"), Code, Endif, Else, Endif,
     Ifdef, Endif, Endif, TailCode>>,
   \* indented directives and lines of white space
   <<White, <<SP, "#ifndef", SP, "FOO", SP>>, <<SP, "#define", SP, "FOO", SP>>,
     White, Code, <<SP, "#if", SP, "F">>, White, <<SP, "#endif">>, White,
     <<SP, "#endif", SP, "// FOO">>, TailCode>>,
   \* empty lines above the guard, at both ends of its body, and after it
   <<Comment, Blank, Blank, Ifndef("FOO"), Define("FOO"), Blank, Blank, Blank,
     Code, Blank, Blank, Blank, Endif, Blank, TailCode>>,
   \* a macro that is no guard: #define FOO with a value
   <<Ifndef("FOO"), <<"#define", SP, "FOO", SP, "1">>, Endif>>}

Inputs ==
  {Join(p \o h \o r) : p \in Prologues, h \in Heads,
                       r \in SeqsUpTo(RestKinds, MaxRest)}
    \cup {Join(s) : s \in Samples}
    \cup {Chop(Join(h \o r)) : h \in Heads, r \in {<< >>, <<Endif>>}}

VARIABLES file, orig, pc, pass, dry_run, content, match, stack, pos, dm,
          new_content, ret, outcome

vars == <<file, orig, pc, pass, dry_run, content, match, stack, pos, dm,
          new_content, ret, outcome>>

NoMatch == [found |-> FALSE]

Init ==
  /\ file \in Inputs
  /\ orig = file
  /\ pc = "idle"
  /\ pass = 0
  /\ dry_run = FALSE
  /\ content = << >>
  /\ match = NoMatch
  /\ stack = << >>
  /\ pos = 0
  /\ dm = NoMatch
  /\ new_content = None
  /\ ret = "none"
  /\ outcome = "none"

\* the model follows one file until an I/O error
Failed == outcome \in {"read_error", "write_error"}

\* process_file, lines 69-73: the call and the read of the file
ReadFile ==
  /\ pc = "idle" /\ pass < MaxPasses /\ ~Failed
  /\ pass' = pass + 1
  /\ content' = file
  /\ pc' = "search"
  /\ match' = NoMatch /\ stack' = << >> /\ pos' = 0 /\ dm' = NoMatch
  /\ new_content' = None /\ ret' = "none"
  /\ UNCHANGED <<file, orig, dry_run, outcome>>

\* process_file, lines 74-76: the read raises
ReadError ==
  /\ pc = "idle" /\ pass < MaxPasses /\ ~Failed
  /\ pass' = pass + 1
  /\ outcome' = "read_error"
  /\ UNCHANGED <<file, orig, pc, dry_run, content, match, stack, pos, dm,
                 new_content, ret>>

\* replace_header_guard, lines 26-45
Search ==
  /\ pc = "search"
  /\ LET m == search(content)
     IN IF ~m.found
        THEN /\ new_content' = None
             /\ ret' = "no_guard"
             /\ pc' = "returned"
             /\ UNCHANGED <<match, stack>>
        ELSE /\ match' = m
             /\ stack' = <<"#ifndef">>
             /\ pc' = "scan"
             /\ UNCHANGED <<new_content, ret>>
  /\ UNCHANGED <<file, orig, pass, dry_run, content, pos, dm, outcome>>

post_define_content == Slice(content, match.end, Len(content))

\* lines 51-54: the next directive opens a conditional
ScanOpen ==
  /\ pc = "scan"
  /\ LET d == NextDirective(post_define_content, pos)
     IN /\ d.found /\ d.group = "if"
        /\ stack' = Push(stack, d.group)
        /\ dm' = d
        /\ pos' = d.end
  /\ UNCHANGED <<file, orig, pc, pass, dry_run, content, match, new_content,
                 ret, outcome>>

\* lines 55-65: the next directive is an #endif
ScanEndif ==
  /\ pc = "scan"
  /\ LET d == NextDirective(post_define_content, pos)
     IN /\ d.found /\ d.group = "endif"
        /\ stack' = Pop(stack)
        /\ dm' = d
        /\ pos' = d.end
        /\ IF Pop(stack) = << >>
           THEN /\ new_content' = Rebuild(content, match, d)
                /\ ret' = "rewritten"
                /\ pc' = "returned"
           ELSE UNCHANGED <<new_content, ret, pc>>
  /\ UNCHANGED <<file, orig, pass, dry_run, content, match, outcome>>

\* lines 66-67: the directives are exhausted
ScanExhausted ==
  /\ pc = "scan"
  /\ ~NextDirective(post_define_content, pos).found
  /\ new_content' = None
  /\ ret' = "no_endif"
  /\ pc' = "returned"
  /\ UNCHANGED <<file, orig, pass, dry_run, content, match, stack, pos, dm,
                 outcome>>

\* process_file, lines 78-91: the three early returns, else go on to write.
\* dry_run is a parameter of the call that nothing reads before line 89: its
\* value is drawn here.
Decide ==
  /\ pc = "returned"
  /\ \E d \in BOOLEAN :
       /\ dry_run' = d
       /\ IF new_content = None
          THEN /\ outcome' = "skipped" /\ pc' = "idle"
          ELSE IF content = new_content
          THEN /\ outcome' = "no_change" /\ pc' = "idle"
          ELSE IF d
          THEN /\ outcome' = "dry_run" /\ pc' = "idle"
          ELSE /\ pc' = "open" /\ UNCHANGED outcome
  /\ UNCHANGED <<file, orig, pass, content, match, stack, pos, dm,
                 new_content, ret>>

\* line 94: open(file_path, 'w') truncates the file
OpenForWrite ==
  /\ pc = "open"
  /\ file' = << >>
  /\ pc' = "write"
  /\ UNCHANGED <<orig, pass, dry_run, content, match, stack, pos, dm,
                 new_content, ret, outcome>>

\* lines 94, 98-99: open raises, the file is as it was
OpenError ==
  /\ pc = "open"
  /\ outcome' = "write_error"
  /\ pc' = "idle"
  /\ UNCHANGED <<file, orig, pass, dry_run, content, match, stack, pos, dm,
                 new_content, ret>>

\* lines 95-97: the text is written and the file closed
WriteFile ==
  /\ pc = "write"
  /\ file' = new_content
  /\ outcome' = "updated"
  /\ pc' = "idle"
  /\ UNCHANGED <<orig, pass, dry_run, content, match, stack, pos, dm,
                 new_content, ret>>

\* lines 95, 98-99: the write or the close raises after n lexemes reached
\* the file
WriteError ==
  /\ pc = "write"
  /\ \E n \in 0..(Len(new_content) - 1) : file' = Slice(new_content, 0, n)
  /\ outcome' = "write_error"
  /\ pc' = "idle"
  /\ UNCHANGED <<orig, pass, dry_run, content, match, stack, pos, dm,
                 new_content, ret>>

Next ==
  \/ ReadFile
  \/ ReadError
  \/ Search
  \/ ScanOpen
  \/ ScanEndif
  \/ ScanExhausted
  \/ Decide
  \/ OpenForWrite
  \/ OpenError
  \/ WriteFile
  \/ WriteError

Spec == Init /\ [][Next]_vars

(***************************************************************************)
(* The vocabulary of the claims: the header read line by line.  Nothing    *)
(* below is used by the actions above.                                     *)
(***************************************************************************)

\* the lines of t, without their newlines
RECURSIVE SplitLines(_, _, _)
SplitLines(t, i, cur) ==
  IF i > Len(t) THEN (IF cur = << >> THEN << >> ELSE <<cur>>)
  ELSE IF t[i] = NL THEN <<cur>> \o SplitLines(t, i + 1, << >>)
  ELSE SplitLines(t, i + 1, Append(cur, t[i]))

Lines(t) == SplitLines(t, 1, << >>)

\* the number of the line that holds lexeme i of t
LineNo(t, i) == 1 + Cardinality({x \in 1..(i - 1) : t[x] = NL})

\* the offset at which line n of t starts, and the one after its newline
RECURSIVE LineOffset(_, _)
LineOffset(ls, n) ==
  IF n <= 1 THEN 0 ELSE LineOffset(ls, n - 1) + Len(ls[n - 1]) + 1

\* a line without its blanks
Strip(l) == SelectSeq(l, LAMBDA c : c # SP)

IsBlankLine(l) == Strip(l) = << >>
IsIfndefOf(l, n) == Strip(l) = <<"#ifndef", n>>
IsDefineOf(l, n) == Strip(l) = <<"#define", n>>
IsOpenLine(l) == ~IsBlankLine(l) /\ Strip(l)[1] \in {"#if", "#ifdef", "#ifndef"}
IsCloseLine(l) == ~IsBlankLine(l) /\ Strip(l)[1] = "#endif"

Opens(ls, from, to) == Cardinality({x \in from..to : IsOpenLine(ls[x])})
Closes(ls, from, to) == Cardinality({x \in from..to : IsCloseLine(ls[x])})

\* lines i < j are an #ifndef and a #define with only blank lines between
IsPair(ls, i, j) ==
  /\ i < j
  /\ \E n \in Names : IsIfndefOf(ls[i], n)
  /\ \E n \in Names : IsDefineOf(ls[j], n)
  /\ \A x \in (i + 1)..(j - 1) : IsBlankLine(ls[x])

SameName(ls, i, j) == \E n \in Names : IsIfndefOf(ls[i], n) /\ IsDefineOf(ls[j], n)

\* the number of conditionals open before line n, an unmatched #endif ignored
RECURSIVE OpenDepth(_, _)
OpenDepth(ls, n) ==
  IF n <= 1 THEN 0
  ELSE LET before == OpenDepth(ls, n - 1)
       IN IF IsOpenLine(ls[n - 1]) THEN before + 1
          ELSE IF IsCloseLine(ls[n - 1]) /\ before > 0 THEN before - 1
          ELSE before

Contains(t, b) == \E i \in 0..(Len(t) - Len(b)) : SubSeq(t, i + 1, i + Len(b)) = b

StartsWith(t, b) == Len(b) <= Len(t) /\ SubSeq(t, 1, Len(b)) = b

EndsWith(t, b) == Len(b) <= Len(t) /\ SubSeq(t, Len(t) - Len(b) + 1, Len(t)) = b

\* the lines of the header being processed, and the lines of its guard
L == Lines(content)
IfndefLine == LineNo(content, match.ifndef)
DefineLine == LineNo(content, match.define)
DirectiveLine(d) == LineNo(content, match.end + d.tok)

\* the three segments the specification builds the output from
Prologue == Slice(content, 0, LineOffset(L, IfndefLine))
Body == Slice(content, LineOffset(L, DefineLine + 1),
              LineOffset(L, DirectiveLine(dm)))
Suffix == Slice(content,
                IF DirectiveLine(dm) < Len(L)
                THEN LineOffset(L, DirectiveLine(dm) + 1) ELSE Len(content),
                Len(content))

Rewritten == pc = "returned" /\ ret = "rewritten"

\* the output the specification describes: prologue, marker, one blank line,
\* body, suffix, trimmed at the end of the file
SpecOutput ==
  rstrip(Prologue \o <<"#pragma once", NL, NL>> \o Body \o Suffix) \o <<NL>>

\* C1: whenever a guard and its matching #endif are found, the returned text
\* is the prologue, the line #pragma once, one blank line, the body and the
\* text after the #endif line, with nothing else inserted or removed but the
\* end-of-file trim; the example header of the specification gives the
\* example output.
C1_ExactOutput ==
  /\ Rewritten => new_content = SpecOutput
  /\ (Rewritten /\ content = Join(ExampleInput))
       => new_content = Join(ExampleOutput)

\* C2: the #endif the Matcher selects is the (N+1)-th #endif after the
\* #define line, N being the number of conditionals opened before it by #if,
\* #ifdef or #ifndef, and never an earlier one; and the Matcher fails only if
\* no #endif line brings the count of #endif lines above that of the opens.
C2_SelectsMatchingEndif ==
  /\ Rewritten =>
       LET ls == L
           j == DefineLine
           k == DirectiveLine(dm)
       IN /\ k > j
          /\ IsCloseLine(ls[k])
          /\ Closes(ls, j + 1, k) = Opens(ls, j + 1, k) + 1
          /\ \A x \in (j + 1)..(k - 1) :
                Closes(ls, j + 1, x) <= Opens(ls, j + 1, x)
  /\ (pc = "returned" /\ ret = "no_endif") =>
       LET ls == L
           j == DefineLine
       IN \A x \in (j + 1)..Len(ls) :
             Closes(ls, j + 1, x) <= Opens(ls, j + 1, x)

\* C2 witness: a guard closed after two or more conditional blocks, one of
\* them opened by #ifndef
C2_Witness ==
  /\ Rewritten
  /\ Opens(L, DefineLine + 1, DirectiveLine(dm)) >= 2
  /\ \E x \in (DefineLine + 1)..DirectiveLine(dm) :
        IsOpenLine(L[x]) /\ Strip(L[x])[1] = "#ifndef"

\* C3: a second pass over a header the first pass rewrote is a no-op: it
\* returns no new text, whatever guard-shaped pairs the body or the suffix of
\* the header held.
C3_Idempotent ==
  (pass >= 2 /\ pc = "returned" /\ outcome = "updated")
    => new_content = None

\* C4: the value returned when the guard has no matching #endif differs from
\* the value returned when there is no guard at all (None).
C4_MalformedDistinct ==
  (pc = "returned" /\ ret = "no_endif") => new_content # None

\* C5: all the text before the #ifndef line is the leading segment of the
\* output, and the marker follows it immediately.
C5_ProloguePreserved ==
  Rewritten => StartsWith(new_content, Prologue \o <<"#pragma once">>)

\* C6: the text between the #define line and the matching #endif line is in
\* the output unchanged and contiguous, but for the trim at the end of the
\* file.
C6_BodyPreserved ==
  Rewritten =>
    \/ Contains(new_content, Body)
    \/ EndsWith(new_content, rstrip(Body) \o <<NL>>)

\* C7: a header in which every #ifndef/#define pair has two textually
\* different identifiers gives None: no guard found.
C7_MismatchRejected ==
  pc = "returned" =>
    LET ls == L
    IN (\A i, j \in 1..Len(ls) : IsPair(ls, i, j) => ~SameName(ls, i, j))
         => (ret = "no_guard" /\ new_content = None)

\* C7 witness: Foo against FOO with an #endif below, and nothing found
C7_Witness ==
  /\ pc = "returned" /\ ret = "no_guard"
  /\ \E i, j, k \in 1..Len(L) :
        /\ IsPair(L, i, j) /\ j < k /\ IsCloseLine(L[k])
        /\ IsIfndefOf(L[i], "Foo") /\ IsDefineOf(L[j], "FOO")
  /\ \A i, j \in 1..Len(L) : IsPair(L, i, j) => ~SameName(L, i, j)

\* C8: the guard found is at top level, no conditional of the prologue being
\* open at its #ifndef line, and it is the first such pair of the header.
C8_FirstTopLevelPair ==
  (pc \in {"scan", "returned"} /\ match.found) =>
    /\ OpenDepth(L, IfndefLine) = 0
    /\ \A i \in 1..(IfndefLine - 1), j \in 1..Len(L) :
          ~(IsPair(L, i, j) /\ SameName(L, i, j) /\ OpenDepth(L, i) = 0)

\* C9: when process_file has returned, the file holds the whole text it read
\* or the whole rewritten text, and the text it read if no guard was found,
\* the nesting was malformed, nothing changed or dry_run was set.
C9_NeverPartial ==
  (pc = "idle" /\ outcome \notin {"none", "read_error"}) =>
    /\ file = content \/ (new_content # None /\ file = new_content)
    /\ outcome \in {"skipped", "no_change", "dry_run"} => file = content

\* C10: the scan is a depth counter: 1 after the #define, one more at every
\* #if, #ifdef or #ifndef line, one less at every #endif line, no line
\* between two directives being one (so #else changes nothing); the depth is
\* at least 1 before every step; the scan ends with success exactly at the
\* step that brings the depth to 0, or with failure when no directive line
\* is left and the depth is above 0; nothing is scanned afterwards.
C10_DepthMachine ==
  [][/\ (pc = "search" /\ pc' = "scan") => Len(stack') = 1
     /\ pc = "scan" =>
          LET ls == L
              prev == IF dm.found THEN DirectiveLine(dm) ELSE DefineLine
              k == DirectiveLine(dm')
              NoDirective(x) == ~IsOpenLine(ls[x]) /\ ~IsCloseLine(ls[x])
          IN /\ Len(stack) >= 1
             /\ IF ret' = "no_endif"
                THEN /\ pc' = "returned"
                     /\ stack' = stack
                     /\ \A x \in (prev + 1)..Len(ls) : NoDirective(x)
                ELSE /\ dm'.found /\ k > prev
                     /\ \A x \in (prev + 1)..(k - 1) : NoDirective(x)
                     /\ IsOpenLine(ls[k]) \/ IsCloseLine(ls[k])
                     /\ IsOpenLine(ls[k]) =>
                          Len(stack') = Len(stack) + 1 /\ pc' = "scan"
                     /\ IsCloseLine(ls[k]) => Len(stack') = Len(stack) - 1
                     /\ (Len(stack') = 0) <=> (pc' = "returned")
                     /\ pc' = "returned" => ret' = "rewritten"
     /\ pc \in {"returned", "open", "write"} => UNCHANGED <<stack, dm, pos>>
    ]_vars

\* C10 witness: a scan that went to depth 2, passed an #else line and ended
\* with success
C10_Witness ==
  /\ Rewritten
  /\ Opens(L, DefineLine + 1, DirectiveLine(dm)) >= 1
  /\ \E x \in (DefineLine + 1)..DirectiveLine(dm) : Strip(L[x]) = <<"#else">>

====
